---- MODULE Spec2Model ----
(***************************************************************************)
(* Model of src/photo_organizer/main.py: the three commands all, year and  *)
(* month (skeleton loop, move_files, clean_folders) acting on a directory  *)
(* tree.  A path is the sequence of its components below the folder given  *)
(* on the command line, so << >> is that folder itself.                    *)
(***************************************************************************)
EXTENDS Integers, Sequences, FiniteSets, TLC

(***************************************************************************)
(* Bounds of the model.                                                    *)
(***************************************************************************)
\* the most files an initial tree holds
MaxFiles == 2
\* the month loop, which need not end by itself, is followed while start.year is
\* at most this year
YearCap == 2024

(***************************************************************************)
(* datetime arithmetic: what replace(), timedelta(days=1), <= and          *)
(* strftime("%B") do on the calendar dates the code handles.               *)
(***************************************************************************)
Date(y, m, d) == [year |-> y, month |-> m, day |-> d]

IsLeap(y) == (y % 4 = 0 /\ y % 100 # 0) \/ y % 400 = 0

DaysInMonth(y, m) ==
    IF m = 2 THEN (IF IsLeap(y) THEN 29 ELSE 28)
    ELSE IF m \in {4, 6, 9, 11} THEN 30 ELSE 31

\* start + timedelta(days=1)
AddDay(t) ==
    IF t.day < DaysInMonth(t.year, t.month) THEN Date(t.year, t.month, t.day + 1)
    ELSE IF t.month < 12 THEN Date(t.year, t.month + 1, 1)
    ELSE Date(t.year + 1, 1, 1)

\* start - timedelta(days=1)
SubDay(t) ==
    IF t.day > 1 THEN Date(t.year, t.month, t.day - 1)
    ELSE IF t.month > 1 THEN Date(t.year, t.month - 1, DaysInMonth(t.year, t.month - 1))
    ELSE Date(t.year - 1, 12, 31)

\* start <= today, both at midnight
DateLE(a, b) ==
    \/ a.year < b.year
    \/ a.year = b.year /\ a.month < b.month
    \/ a.year = b.year /\ a.month = b.month /\ a.day <= b.day

\* strftime("%B"): the full month name, letter by letter
MonthName(m) ==
    CASE m = 1 -> <<"J", "a", "n", "u", "a", "r", "y">>
      [] m = 2 -> <<"F", "e", "b", "r", "u", "a", "r", "y">>
      [] m = 3 -> <<"M", "a", "r", "c", "h">>
      [] m = 4 -> <<"A", "p", "r", "i", "l">>
      [] m = 5 -> <<"M", "a", "y">>
      [] m = 6 -> <<"J", "u", "n", "e">>
      [] m = 7 -> <<"J", "u", "l", "y">>
      [] m = 8 -> <<"A", "u", "g", "u", "s", "t">>
      [] m = 9 -> <<"S", "e", "p", "t", "e", "m", "b", "e", "r">>
      [] m = 10 -> <<"O", "c", "t", "o", "b", "e", "r">>
      [] m = 11 -> <<"N", "o", "v", "e", "m", "b", "e", "r">>
      [] m = 12 -> <<"D", "e", "c", "e", "m", "b", "e", "r">>

RECURSIVE Join(_)
Join(s) == IF s = << >> THEN "" ELSE Head(s) \o Join(Tail(s))

\* strftime("%B")[0:3]
Mon3(m) == Join(SubSeq(MonthName(m), 1, 3))

\* f"{start.month}-{start.day}"
MonthDay(t) == ToString(t.month) \o "-" \o ToString(t.day)

(***************************************************************************)
(* Bucket paths.                                                           *)
(***************************************************************************)
\* Path(folder, str(start.year), start.strftime("%B")[0:3], f"{month}-{day}")
YearBucket(folder_, t) == folder_ \o <<ToString(t.year), Mon3(t.month), MonthDay(t)>>

\* Path(folder, start.strftime("%B")[0:3], f"{month}-{day}")
MonthBucket(folder_, t) == folder_ \o <<Mon3(t.month), MonthDay(t)>>

\* move_files: Path(folder, modified_time.strftime("%B")[0:3], f"{month}-{day}")
TargetDirectory(folder_, modified_time) ==
    folder_ \o <<Mon3(modified_time.month), MonthDay(modified_time)>>

(***************************************************************************)
(* The file system: directories and regular files.                         *)
(***************************************************************************)
Parent(p) == SubSeq(p, 1, Len(p) - 1)
Name(p) == p[Len(p)]
Prefixes(p) == {SubSeq(p, 1, k) : k \in 0..Len(p)}
Range(f) == {f[x] : x \in DOMAIN f}
Without(f, x) == [y \in DOMAIN f \ {x} |-> f[y]]

VARIABLES
    mode,        \* the command: "all", "year", "month", or "calls" for bare calls
    start,       \* the command's local start
    today,       \* datetime.now() at midnight
    folder,      \* the command's local folder
    limit,       \* the command's local next_year / next_month
    pc,          \* position in the program
    dirs,        \* the directories that exist
    loc,         \* file -> its path, for the regular files that exist
    call,        \* the running call: function, folder and read_target arguments
    todo,        \* the calls that follow it
    read_target, \* move_files' local read_target / the folder clean_folders walks
    stack,       \* rglob: directories still to be listed, next first
    entries,     \* rglob: entries of the listed directory not yet yielded
    subdirs,     \* rglob: directories among the entries yielded, in order
    path,        \* the loop variable: file_path / subdir
    destination_path,
    faulty,      \* whether the environment may interfere (other processes, I/O errors)
    dirs0, loc0, \* the tree at the start
    start0,      \* the start argument as given
    moves,       \* file -> number of times rename moved it
    run,         \* number of calls begun
    errors,      \* logger.error lines of the running call
    actions,     \* renames and rmdirs of the running call
    snap         \* the tree when the previous call returned

vars == <<mode, start, today, folder, limit, pc, dirs, loc, call, todo, read_target,
          stack, entries, subdirs, path, destination_path, faulty, dirs0, loc0, start0,
          moves, run, errors, actions, snap>>

cmdVars == <<mode, start, today, folder, limit>>
walkVars == <<read_target, stack, entries, subdirs, path, destination_path>>
histVars == <<moves, run, errors, actions, snap>>
constVars == <<faulty, dirs0, loc0, start0>>

Files == DOMAIN loc
IsFile(p) == \E f \in Files : loc[f] = p
IsDir(p) == p \in dirs
Exists(p) == IsFile(p) \/ IsDir(p)
FileAt(p) == CHOOSE f \in Files : loc[f] = p
\* os.scandir(d): the entries of directory d
Children(d) == {p \in dirs \cup Range(loc) : Len(p) = Len(d) + 1 /\ Parent(p) = d}

None == <<"<None>">>

(***************************************************************************)
(* The trees and arguments the commands are started on.  The files of a    *)
(* tree are drawn from a table of candidates placed relative to the        *)
(* directory the command reads files from.                                 *)
(***************************************************************************)
Modes == {"all", "year", "month"}
\* all and year keep only the year of start
StartsOf(m) ==
    IF m = "month" THEN {Date(2024, 2, 15), Date(2024, 3, 15), Date(2023, 12, 15)}
    ELSE {Date(2024, 3, 15), Date(2023, 12, 15)}
Todays == {Date(2024, 3, 20)}

Candidates == 1..5
CandName(i) == IF i = 5 THEN "y.jpg" ELSE "x.jpg"
\* the local calendar date of st_mtime in America/Los_Angeles
MTime(i) ==
    CASE i \in {1, 2, 4} -> Date(2024, 3, 5)
      [] i = 3 -> Date(2024, 3, 7)
      [] i = 5 -> Date(2024, 2, 29)
CandDir(i, base, root_) ==
    CASE i = 1 -> base
      [] i = 2 -> base \o <<"a", "b">>
      [] i = 3 -> TargetDirectory(root_, Date(2024, 3, 5))
      [] i = 4 -> base \o <<"c">>
      [] i = 5 -> base

\* the directory a command reads files from, and the folder it hands to move_files
BaseOf(m, s) ==
    CASE m = "all" -> << >>
      [] m = "year" -> <<ToString(s.year)>>
      [] m = "month" -> <<Mon3(s.month)>>
RootOf(m, s) == IF m = "year" THEN <<ToString(s.year)>> ELSE << >>

TreeLoc(S, base, root_) == [i \in S |-> CandDir(i, base, root_) \o <<CandName(i)>>]
TreeDirs(S, base, root_) ==
    UNION ({Prefixes(base \o <<"a", "b">>)}
           \cup {Prefixes(CandDir(i, base, root_)) : i \in S})

InitTree(base, root_) ==
    \E S \in SUBSET Candidates :
        /\ Cardinality(S) <= MaxFiles
        /\ loc = TreeLoc(S, base, root_)
        /\ dirs = TreeDirs(S, base, root_)
        /\ loc0 = loc
        /\ dirs0 = dirs

InitWalk ==
    /\ call = [fn |-> "none", folder |-> << >>, read_target |-> None]
    /\ read_target = << >>
    /\ stack = << >>
    /\ entries = {}
    /\ subdirs = << >>
    /\ path = << >>
    /\ destination_path = << >>
    /\ moves = [f \in Files |-> 0]
    /\ run = 0
    /\ errors = 0
    /\ actions = 0
    /\ snap = [dirs |-> dirs, loc |-> loc]

InitCommand ==
    /\ mode \in Modes
    /\ start \in StartsOf(mode)
    /\ start0 = start
    /\ today \in Todays
    /\ folder = << >>
    /\ limit = 0
    /\ pc = "begin"
    /\ todo = << >>
    /\ InitTree(BaseOf(mode, start), RootOf(mode, start))
    /\ InitWalk

Init == InitCommand /\ faulty = FALSE

(***************************************************************************)
(* The skeleton loops of the three commands.                               *)
(***************************************************************************)
\* the loop body: exists() / mkdir(parents=True, exist_ok=True), then the increment
SkeletonStep(target_directory) ==
    IF Exists(target_directory)
    THEN /\ start' = AddDay(start)
         /\ UNCHANGED <<dirs, pc>>
    ELSE IF \E p \in Prefixes(target_directory) : IsFile(p)
    THEN /\ pc' = "raised_mkdir"
         /\ UNCHANGED <<dirs, start>>
    ELSE /\ dirs' = dirs \cup Prefixes(target_directory)
         /\ start' = AddDay(start)
         /\ UNCHANGED pc

MoveFilesCall(folder_, read_target_) ==
    [fn |-> "move_files", folder |-> folder_, read_target |-> read_target_]
CleanFoldersCall(folder_) ==
    [fn |-> "clean_folders", folder |-> folder_, read_target |-> None]

AllBegin ==
    /\ pc = "begin" /\ mode = "all"
    /\ start' = Date(start.year, 1, 1)
    /\ pc' = "all_loop"
    /\ UNCHANGED <<mode, today, folder, limit, dirs, loc, call, todo>>
    /\ UNCHANGED <<walkVars, histVars, constVars>>

AllLoop ==
    /\ pc = "all_loop" /\ DateLE(start, today)
    /\ SkeletonStep(YearBucket(folder, start))
    /\ UNCHANGED <<mode, today, folder, limit, loc, call, todo>>
    /\ UNCHANGED <<walkVars, histVars, constVars>>

AllCalls ==
    /\ pc = "all_loop" /\ ~DateLE(start, today)
    /\ todo' = <<MoveFilesCall(folder, None), CleanFoldersCall(folder)>>
    /\ pc' = "call"
    /\ UNCHANGED <<cmdVars, dirs, loc, call, walkVars, histVars, constVars>>

YearBegin ==
    /\ pc = "begin" /\ mode = "year"
    /\ start' = Date(start.year, 1, 1)
    /\ limit' = start.year + 1
    /\ pc' = "year_loop"
    /\ UNCHANGED <<mode, today, folder, dirs, loc, call, todo>>
    /\ UNCHANGED <<walkVars, histVars, constVars>>

YearLoop ==
    /\ pc = "year_loop" /\ start.year < limit
    /\ SkeletonStep(YearBucket(folder, start))
    /\ UNCHANGED <<mode, today, folder, limit, loc, call, todo>>
    /\ UNCHANGED <<walkVars, histVars, constVars>>

YearCalls ==
    /\ pc = "year_loop" /\ ~(start.year < limit)
    /\ start' = SubDay(start)
    /\ folder' = folder \o <<ToString(start'.year)>>
    /\ todo' = <<MoveFilesCall(folder', None), CleanFoldersCall(folder')>>
    /\ pc' = "call"
    /\ UNCHANGED <<mode, today, limit, dirs, loc, call, walkVars, histVars, constVars>>

MonthBegin ==
    /\ pc = "begin" /\ mode = "month"
    /\ start' = Date(start.year, start.month, 1)
    /\ limit' = start.month + 1
    /\ pc' = "month_loop"
    /\ UNCHANGED <<mode, today, folder, dirs, loc, call, todo>>
    /\ UNCHANGED <<walkVars, histVars, constVars>>

MonthLoop ==
    /\ pc = "month_loop" /\ start.month < limit
    /\ start.year <= YearCap
    /\ SkeletonStep(MonthBucket(folder, start))
    /\ UNCHANGED <<mode, today, folder, limit, loc, call, todo>>
    /\ UNCHANGED <<walkVars, histVars, constVars>>

MonthCalls ==
    /\ pc = "month_loop" /\ ~(start.month < limit)
    /\ start' = SubDay(start)
    /\ todo' = <<MoveFilesCall(folder, folder \o <<Mon3(start'.month)>>),
                 CleanFoldersCall(folder \o <<Mon3(start'.month)>>)>>
    /\ pc' = "call"
    /\ UNCHANGED <<mode, today, folder, limit, dirs, loc, call>>
    /\ UNCHANGED <<walkVars, histVars, constVars>>

(***************************************************************************)
(* Path.rglob('*'): a lazy top-down walk.  A directory is listed when the  *)
(* walk reaches it; its entries are yielded one by one while the loop body *)
(* runs; the directories among them are walked afterwards, in the order    *)
(* they were yielded.  The walk root itself is never yielded.              *)
(* scandir's order is arbitrary: entries that were in the tree from the    *)
(* start are yielded in every order; directories the skeleton made, which  *)
(* hold nothing the loop bodies change, follow in one fixed order.         *)
(***************************************************************************)
Pending == SelectSeq(subdirs, IsDir) \o stack

Arbitrary(p) == IsFile(p) \/ p \in dirs0
NextEntries ==
    IF \E p \in entries : Arbitrary(p)
    THEN {p \in entries : Arbitrary(p)}
    ELSE {CHOOSE p \in entries : TRUE}

RglobStart(target) ==
    /\ stack' = IF IsDir(target) THEN <<target>> ELSE << >>
    /\ entries' = {}
    /\ subdirs' = << >>

RglobYield(p) ==
    /\ entries' = entries \ {p}
    /\ subdirs' = IF IsDir(p) THEN Append(subdirs, p) ELSE subdirs
    /\ path' = p
    /\ UNCHANGED stack

RglobScan ==
    /\ pc \in {"move_iter", "clean_iter"}
    /\ entries = {} /\ Pending # << >>
    /\ entries' = Children(Head(Pending))
    /\ stack' = Tail(Pending)
    /\ subdirs' = << >>
    /\ UNCHANGED <<cmdVars, pc, dirs, loc, call, todo, read_target, path,
                   destination_path, histVars, constVars>>

(***************************************************************************)
(* The calls a command makes, one after the other.                         *)
(***************************************************************************)
BeginCall ==
    /\ call' = Head(todo)
    /\ todo' = Tail(todo)
    /\ run' = run + 1
    /\ errors' = 0
    /\ actions' = 0
    /\ UNCHANGED <<cmdVars, dirs, loc, path, destination_path, moves, snap, constVars>>

Return ==
    /\ entries = {} /\ Pending = << >>
    /\ pc' = "call"
    /\ snap' = [dirs |-> dirs, loc |-> loc]
    /\ UNCHANGED <<cmdVars, dirs, loc, call, todo, walkVars, constVars>>
    /\ UNCHANGED <<moves, run, errors, actions>>

Finish ==
    /\ pc = "call" /\ todo = << >>
    /\ pc' = "done"
    /\ UNCHANGED <<cmdVars, dirs, loc, call, todo, walkVars, histVars, constVars>>

(***************************************************************************)
(* move_files                                                              *)
(***************************************************************************)
\* destination_path = target_directory / file_path.name
DestinationPath(target_directory, file_path) == target_directory \o <<Name(file_path)>>

\* a check that sees directories only
DestinationIsDir(p) == IsDir(p)

\* destination_path.exists()
DestinationExists(p) == Exists(p)

\* os.rename of a regular file: the parent of dst must be a directory and dst no
\* directory; a regular file at dst is replaced
RenameFails(src, dst) == ~IsFile(src) \/ ~IsDir(Parent(dst)) \/ IsDir(dst)
Rename(src, dst) ==
    LET f == FileAt(src)
        kept == {g \in Files : g = f \/ loc[g] # dst}
    IN  [g \in kept |-> IF g = f THEN dst ELSE loc[g]]

MoveFilesEnter ==
    /\ pc = "call" /\ todo # << >> /\ Head(todo).fn = "move_files"
    /\ BeginCall
    /\ read_target' = IF Head(todo).read_target = None
                      THEN Head(todo).folder ELSE Head(todo).read_target
    /\ RglobStart(read_target')
    /\ pc' = "move_iter"

\* for file_path in read_target.rglob('*'): if file_path.is_file():
MoveYield ==
    /\ pc = "move_iter" /\ entries # {}
    /\ \E p \in NextEntries :
        /\ RglobYield(p)
        /\ pc' = IF IsFile(p) THEN "move_stat" ELSE "move_iter"
    /\ UNCHANGED <<cmdVars, dirs, loc, call, todo, read_target, destination_path,
                   histVars, constVars>>

\* the two stat() calls and the destination, all outside the try
MoveStat ==
    /\ pc = "move_stat"
    /\ IF IsFile(path)
       THEN /\ destination_path' =
                 DestinationPath(TargetDirectory(call.folder, MTime(FileAt(path))), path)
            /\ pc' = "move_rename"
       ELSE /\ pc' = "raised_move"
            /\ UNCHANGED destination_path
    /\ UNCHANGED <<cmdVars, dirs, loc, call, todo, read_target, stack, entries,
                   subdirs, path, histVars, constVars>>

\* try: exists() / rename()  except Exception: logger.error
MoveRename ==
    /\ pc = "move_rename"
    /\ IF DestinationExists(destination_path)
       THEN UNCHANGED <<loc, moves, errors, actions>>
       ELSE \E io_error \in (IF faulty THEN BOOLEAN ELSE {FALSE}) :
            IF io_error \/ RenameFails(path, destination_path)
            THEN /\ errors' = errors + 1
                 /\ UNCHANGED <<loc, moves, actions>>
            ELSE /\ loc' = Rename(path, destination_path)
                 /\ moves' = [moves EXCEPT ![FileAt(path)] = @ + 1]
                 /\ actions' = actions + 1
                 /\ UNCHANGED errors
    /\ pc' = "move_iter"
    /\ UNCHANGED <<cmdVars, dirs, call, todo, walkVars, run, snap, constVars>>

MoveReturn == pc = "move_iter" /\ Return

(***************************************************************************)
(* clean_folders                                                           *)
(***************************************************************************)
\* a test that forgets to look inside the directory
IsAnyDir(subdir) == IsDir(subdir)

\* subdir.is_dir() and not any(subdir.iterdir())
IsEmptyDir(subdir) == IsDir(subdir) /\ Children(subdir) = {}

CleanFoldersEnter ==
    /\ pc = "call" /\ todo # << >> /\ Head(todo).fn = "clean_folders"
    /\ BeginCall
    /\ read_target' = Head(todo).folder
    /\ RglobStart(read_target')
    /\ pc' = "clean_iter"

\* for subdir in folder.rglob('*'):
CleanYield ==
    /\ pc = "clean_iter" /\ entries # {}
    /\ \E p \in NextEntries : RglobYield(p)
    /\ pc' = "clean_body"
    /\ UNCHANGED <<cmdVars, dirs, loc, call, todo, read_target, destination_path,
                   histVars, constVars>>

\* the loop body; rmdir() is not inside any try
CleanBody ==
    /\ pc = "clean_body"
    /\ IF IsEmptyDir(path)
       THEN \E io_error \in (IF faulty THEN BOOLEAN ELSE {FALSE}) :
            IF io_error
            THEN /\ pc' = "raised_clean"
                 /\ UNCHANGED <<dirs, actions>>
            ELSE /\ dirs' = dirs \ {path}
                 /\ actions' = actions + 1
                 /\ pc' = "clean_iter"
       ELSE /\ pc' = "clean_iter"
            /\ UNCHANGED <<dirs, actions>>
    /\ UNCHANGED <<cmdVars, loc, call, todo, walkVars, moves, run, errors, snap,
                   constVars>>

CleanReturn == pc = "clean_iter" /\ Return

(***************************************************************************)
(* The commands.                                                           *)
(***************************************************************************)
Skeleton ==
    \/ AllBegin \/ AllLoop \/ AllCalls
    \/ YearBegin \/ YearLoop \/ YearCalls
    \/ MonthBegin \/ MonthLoop \/ MonthCalls

Calls ==
    \/ MoveFilesEnter \/ MoveYield \/ MoveStat \/ MoveRename \/ MoveReturn
    \/ CleanFoldersEnter \/ CleanYield \/ CleanBody \/ CleanReturn
    \/ RglobScan \/ Finish

Next == Skeleton \/ Calls

Spec == Init /\ [][Next]_vars

(***************************************************************************)
(* move_files or clean_folders called twice in succession on a tree.       *)
(***************************************************************************)
Buckets == {TargetDirectory(<< >>, MTime(i)) : i \in Candidates}

InitCalls ==
    /\ mode = "calls"
    /\ start = Date(2024, 3, 15)
    /\ start0 = start
    /\ today \in Todays
    /\ folder = << >>
    /\ limit = 0
    /\ pc = "call"
    /\ \E base \in {<< >>, <<"Mar">>}, S \in SUBSET Candidates, B \in SUBSET Buckets :
        /\ Cardinality(S) <= MaxFiles
        /\ loc = TreeLoc(S, base, << >>)
        /\ dirs = TreeDirs(S, base, << >>) \cup UNION {Prefixes(b) : b \in B}
        /\ loc0 = loc
        /\ dirs0 = dirs
        /\ \/ todo = <<MoveFilesCall(<< >>, IF base = << >> THEN None ELSE base),
                       MoveFilesCall(<< >>, IF base = << >> THEN None ELSE base)>>
           \/ todo = <<CleanFoldersCall(base), CleanFoldersCall(base)>>
    /\ InitWalk
    /\ faulty = FALSE

SpecCalls == InitCalls /\ [][Calls]_vars

(***************************************************************************)
(* The month command while another process removes files and while rename  *)
(* and rmdir may fail (permissions, devices).                              *)
(***************************************************************************)
EnvDelete ==
    /\ faulty
    /\ pc \in {"move_iter", "move_stat", "move_rename"}
    /\ \E f \in Files : loc' = Without(loc, f)
    /\ UNCHANGED <<cmdVars, pc, dirs, call, todo, walkVars, histVars, constVars>>

InitEnv == InitCommand /\ mode = "month" /\ faulty = TRUE

NextEnv == MonthBegin \/ MonthLoop \/ MonthCalls \/ Calls \/ EnvDelete

SpecEnv == InitEnv /\ [][NextEnv]_vars

(***************************************************************************)
(* Properties.                                                             *)
(***************************************************************************)
IsUnder(p, d) == Len(p) > Len(d) /\ SubSeq(p, 1, Len(d)) = d
AfterMoveFiles == run >= 1 /\ pc \in {"call", "clean_iter", "clean_body", "done"}
AfterCleanFolders == call.fn = "clean_folders" /\ pc \in {"call", "done"}

DaysOfMonth(y, m) == {Date(y, m, d) : d \in 1..DaysInMonth(y, m)}
DaysOfYear(y) == UNION {DaysOfMonth(y, m) : m \in 1..12}
\* the calendar days a command's skeleton is for
SkeletonRange ==
    CASE mode = "all" ->
           {t \in UNION {DaysOfYear(y) : y \in start0.year..today.year} : DateLE(t, today)}
      [] mode = "year" -> DaysOfYear(start0.year)
      [] mode = "month" -> DaysOfMonth(start0.year, start0.month)
      [] OTHER -> {}
\* the bucket of day t: year-qualified for all and year, year-less for month
BucketOfMode(t) == IF mode = "month" THEN MonthBucket(<< >>, t) ELSE YearBucket(<< >>, t)

\* C1: after the relocation step of all, year or month, every file found under the
\* read-target, dated inside the skeleton's range, whose bucket held no entry of its
\* name is at
\* <root>/[<year>/]<Mon>/<month>-<day>/<name> (year-qualified for all and year), where
\* the date is its modification date, and nowhere else.
C1_RelocatedToBucket ==
    (mode \in Modes /\ AfterMoveFiles) =>
        \A f \in DOMAIN loc0 :
            LET dest == BucketOfMode(MTime(f)) \o <<Name(loc0[f])>>
            IN  (/\ IsUnder(loc0[f], read_target)
                 /\ MTime(f) \in SkeletonRange
                 /\ dest \notin Range(loc0) \cup dirs0
                 /\ \A g \in DOMAIN loc0 \ {f} :
                        BucketOfMode(MTime(g)) \o <<Name(loc0[g])>> # dest)
                => (f \in Files /\ loc[f] = dest)

\* C2: in every mode the directory move_files computes for a file dated inside the
\* skeleton's range is the directory the skeleton loop made for that date.
C2_SameBucketRule ==
    (mode \in Modes /\ pc = "move_rename" /\ IsFile(path)
        /\ MTime(FileAt(path)) \in SkeletonRange)
    => Parent(destination_path) = BucketOfMode(MTime(FileAt(path)))

\* C3: when the destination path of the file being processed already exists, the
\* move is skipped: no file changes place or is lost and no directory changes.
C3_ConflictSkipped ==
    [][(pc = "move_rename" /\ Exists(destination_path)) => (loc' = loc /\ dirs' = dirs)]_vars

\* C3 witness: a file has just been skipped because a file of the same name, moved
\* there earlier in this run, holds its destination.
C3_Witness ==
    /\ pc = "move_iter" /\ IsFile(path) /\ IsFile(destination_path)
    /\ path # destination_path
    /\ Name(path) = Name(destination_path)
    /\ moves[FileAt(destination_path)] = 1
    /\ moves[FileAt(path)] = 0
    /\ loc[FileAt(path)] = loc0[FileAt(path)]

\* C4: of two runs of move_files in succession, the second moves no file and leaves
\* the tree as the first run left it, and no file is moved more than once.
C4_SecondRunNoOp ==
    /\ \A f \in DOMAIN moves : moves[f] <= 1
    /\ (call.fn = "move_files" /\ run = 2) =>
           (actions = 0 /\ loc = snap.loc /\ dirs = snap.dirs)

\* C5: a skeleton loop creates bucket directories for the days of its mode's range
\* only, and when it ends there is a bucket for each of those days.
C5_SkeletonExact ==
    /\ pc \in {"all_loop", "year_loop", "month_loop"} =>
           dirs \ dirs0 \subseteq UNION {Prefixes(BucketOfMode(t)) : t \in SkeletonRange}
    /\ (mode \in Modes /\ pc = "call" /\ run = 0) =>
           \A t \in SkeletonRange : IsDir(BucketOfMode(t))

\* C6: a second run of clean_folders on the same folder deletes no directory.
C6_PruneIdempotent ==
    (call.fn = "clean_folders" /\ run = 2) => actions = 0

\* C7: no failure on a single file makes move_files raise.
C7_MoveNeverAborts == pc # "raised_move"

\* C8: no failure to remove a directory makes clean_folders raise.
C8_PruneNeverAborts == pc # "raised_clean"

\* C9: after one run of clean_folders no empty directory remains strictly below the
\* folder it was called on.
C9_NoEmptyDirLeft ==
    AfterCleanFolders =>
        ~ \E d \in dirs : IsUnder(d, read_target) /\ Children(d) = {}

\* C10: the regular files are conserved (none deleted, none overwritten, names
\* kept, each in an existing directory), and a directory is removed only when it is
\* empty and is not the folder clean_folders was called on.
FilesConserved ==
    /\ DOMAIN loc = DOMAIN loc0
    /\ \A f \in Files : Name(loc[f]) = Name(loc0[f]) /\ IsDir(Parent(loc[f]))
    /\ \A f, g \in Files : f # g => loc[f] # loc[g]
PrunedOnlyEmpty ==
    \A d \in dirs \ dirs' : Children(d) = {} /\ d # read_target /\ pc = "clean_body"
C10_FileConservation == [](FilesConserved) /\ [][PrunedOnlyEmpty]_vars

\* C10 witness: a command has ended after moving a file and pruning a directory.
C10_Witness ==
    /\ pc = "done" /\ mode \in Modes
    /\ \E f \in Files : loc[f] # loc0[f]
    /\ actions > 0
====
